---- MODULE Spec2Model ----
(***************************************************************************)
(* Strategy pattern exercise: WorkflowTask, TaskTimer, the three           *)
(* TaskProcessor strategies and the TaskManager context                    *)
(* (4_behavioral/02_strategy/starter.py).                                  *)
(*                                                                         *)
(* Time is a logical clock counted in tenths of a second.  time.sleep(d)   *)
(* advances it by d; between two calls of the client it may advance by     *)
(* any amount (action Tick).                                               *)
(*                                                                         *)
(* No operation reads a task other than its argument, and a processor      *)
(* object has no state besides its own timer fields: the model follows     *)
(* one WorkflowTask, one instance of each processor class and one          *)
(* TaskManager through any sequence of calls.                              *)
(***************************************************************************)
EXTENDS Integers, Sequences, FiniteSets, TLC

\* ---------------------------------------------------------------- bounds
MaxClock == 1
MaxCalls == 3
MaxTitleLen == 3
MaxDescLen == 1

\* ------------------------------------------------------- Python values
\* Values are tagged with their Python type, so that '' and False, or
\* None and 0, stay different values.
None == [t |-> "None"]
Bool(b) == [t |-> "bool", b |-> b]
\* a str given by its characters (titles, descriptions)
Str(s) == [t |-> "str", s |-> s]
\* a str given as a literal of the program ("completed", "urgent", ..)
StrLit(l) == [t |-> "str", lit |-> l]
Float(n) == [t |-> "float", n |-> n]
Datetime(n) == [t |-> "datetime", at |-> n]
Ref(i) == [t |-> "object", id |-> i]

\* Python truth value testing: None, False and the empty string are false;
\* datetime objects and plain objects (no __bool__, no __len__) are true.
Truthy(v) ==
    CASE v.t = "None" -> FALSE
      [] v.t = "bool" -> v.b
      [] v.t = "str" -> IF "s" \in DOMAIN v THEN Len(v.s) > 0 ELSE v.lit # ""
      [] v.t = "float" -> v.n # 0
      [] OTHER -> TRUE

\* x and y: x when x is false, y otherwise
PyAnd(x, y) == IF Truthy(x) THEN y ELSE x

\* bool(x)
PyBool(x) == Bool(Truthy(x))

\* ------------------------------------------------------------- enums
LOW == "low"
MEDIUM == "medium"
HIGH == "high"
URGENT == "urgent"
TaskPriority == {LOW, MEDIUM, HIGH, URGENT}

\* Strategies, in declaration order
Strategies == <<"standard", "background", "urgent">>
get_values == {Strategies[i] : i \in DOMAIN Strategies}

\* time.sleep arguments, in tenths of a second
StandardSleep == 10
BackgroundSleep == 1

\* ------------------------------------------------------- input domains
Chars == {"a"}
TextUpTo(n) == UNION {[1..k -> Chars] : k \in 0..n}
Titles == TextUpTo(MaxTitleLen)
Descriptions == TextUpTo(MaxDescLen)

\* ------------------------------------------------------- WorkflowTask
WorkflowTask(title, priority, description, now) ==
    [title |-> Str(title), priority |-> priority,
     description |-> Str(description),
     created_at |-> Datetime(now), completed_at |-> None]

\* a mark_completed that toggles: a second call clears the timestamp
mark_completed_Toggle(task, now) ==
    [task EXCEPT !.completed_at =
        IF task.completed_at = None THEN Datetime(now) ELSE None]

mark_completed(task, now) == [task EXCEPT !.completed_at = Datetime(now)]

\* a get_status that tests the wrong timestamp
get_status_CreatedAt(task) ==
    IF Truthy(task.created_at) THEN StrLit("completed") ELSE None

get_status(task) ==
    IF Truthy(task.completed_at) THEN StrLit("completed") ELSE None

\* ---------------------------------------------------------- TaskTimer
TaskTimer == [start_time |-> None, end_time |-> None]

start_timer(self, now) == [self EXCEPT !.start_time = Float(now)]

end_timer(self, now) == [self EXCEPT !.end_time = Float(now)]

\* the timer object after get_processing_time()
get_processing_time_self(self, now) ==
    IF self.end_time = None THEN end_timer(self, now) ELSE self

\* the value get_processing_time() returns
get_processing_time(self, now) ==
    LET s == get_processing_time_self(self, now)
    IN  Float(s.end_time.n - s.start_time.n)

\* ------------------------------------------------- concrete strategies
\* A processor object: its class and the TaskTimer fields it inherits.
Kinds == {"urgent", "standard", "background"}

NewProcessorObject(kind) ==
    [kind |-> kind, start_time |-> TaskTimer.start_time,
     end_time |-> TaskTimer.end_time]

\* A TaskProcessor subclass written by the client: the interface asks for
\* __str__ and process_task only.  Its name is none of Strategies and its
\* process_task is the body of the abstract method (pass).
ForeignName == "custom"
ForeignProcessorObject == [kind |-> "foreign", name |-> ForeignName]
AllKinds == Kinds \cup {ForeignProcessorObject.kind}

\* a __str__ that gives the class name instead of the Strategies value
ProcessorStr_ClassName(self) ==
    CASE self.kind = "urgent" -> "UrgentTaskProcessor"
      [] self.kind = "standard" -> "StandardTaskProcessor"
      [] self.kind = "background" -> "BackgroundTaskProcessor"
      [] self.kind = "foreign" -> self.name

\* __str__ of the three classes (and of the client's class)
ProcessorStr(self) ==
    CASE self.kind = "urgent" -> Strategies[3]
      [] self.kind = "standard" -> Strategies[1]
      [] self.kind = "background" -> Strategies[2]
      [] self.kind = "foreign" -> self.name

\* validate_task without the bool() conversion
UrgentValidateTask_NoBool(task) ==
    PyAnd(Bool(task.priority = URGENT), task.description)

UrgentValidateTask(task) ==
    PyBool(PyAnd(Bool(task.priority = URGENT), task.description))

\* a validate_task that fails every task that is already completed
StandardValidateTask_FreshOnly(task) ==
    IF task.completed_at = None
    THEN PyAnd(task.title, Bool(Len(task.title.s) >= 3))
    ELSE Bool(FALSE)

StandardValidateTask(task) ==
    PyAnd(task.title, Bool(Len(task.title.s) >= 3))

\* a validate_task that admits low priority only
BackgroundValidateTask_LowOnly(task) == Bool(task.priority = LOW)

BackgroundValidateTask(task) == Bool(task.priority # URGENT)

validate_task(self, task) ==
    CASE self.kind = "urgent" -> UrgentValidateTask(task)
      [] self.kind = "standard" -> StandardValidateTask(task)
      [] self.kind = "background" -> BackgroundValidateTask(task)

\* time.sleep argument of each class (no sleep in UrgentTaskProcessor)
SleepOf(kind) ==
    CASE kind = "urgent" -> 0
      [] kind = "standard" -> StandardSleep
      [] kind = "background" -> BackgroundSleep

\* The statements of process_task, in source order.
\* a process_task that forgets task.mark_completed()
UrgentProcessTask_NoMark == <<"start_timer", "validate_task", "return">>

UrgentProcessTask == <<"start_timer", "validate_task", "mark_completed", "return">>
StandardProcessTask ==
    <<"start_timer", "sleep", "validate_task", "mark_completed", "return">>
BackgroundProcessTask ==
    <<"start_timer", "validate_task", "sleep", "mark_completed", "return">>

\* the abstract TaskProcessor.process_task: pass
AbstractProcessTask == <<>>

ProcessTaskBody(kind) ==
    CASE kind = "urgent" -> UrgentProcessTask
      [] kind = "standard" -> StandardProcessTask
      [] kind = "background" -> BackgroundProcessTask
      [] kind = "foreign" -> AbstractProcessTask

\* The dict literal of the return statement; entries are evaluated in order.
ReturnDict(self, task, validation_passed, now) ==
    [status |-> get_status(task),
     processing_time |-> get_processing_time(self, now),
     strategy_used |-> StrLit(ProcessorStr(self)),
     validation_passed |-> validation_passed]

\* One statement of process_task on the frame
\* [now, self, task, validation_passed, ret, trace].
ExecStmt(stmt, f) ==
    LET g == [f EXCEPT !.trace = Append(f.trace, stmt)]
    IN  CASE stmt = "start_timer" ->
               [g EXCEPT !.self = start_timer(f.self, f.now)]
          [] stmt = "sleep" ->
               [g EXCEPT !.now = f.now + SleepOf(f.self.kind)]
          [] stmt = "validate_task" ->
               [g EXCEPT !.validation_passed = validate_task(f.self, f.task)]
          [] stmt = "mark_completed" ->
               [g EXCEPT !.task = mark_completed(f.task, f.now)]
          [] stmt = "return" ->
               [g EXCEPT !.ret = ReturnDict(f.self, f.task, f.validation_passed, f.now),
                         !.self = get_processing_time_self(f.self, f.now)]

RECURSIVE ExecBody(_, _)
ExecBody(body, f) ==
    IF body = <<>> THEN f ELSE ExecBody(Tail(body), ExecStmt(Head(body), f))

\* process_task of processor object self on task, entered at time now
process_task(self, task, now) ==
    ExecBody(ProcessTaskBody(self.kind),
             [now |-> now, self |-> self, task |-> task,
              validation_passed |-> None, ret |-> None, trace |-> <<>>])

\* -------------------------------------------------------- TaskManager
\* a constructor that falls back to a default strategy
TaskManagerObject_Default(strategy) ==
    [strategy |-> IF strategy = None THEN Ref("standard") ELSE strategy]

TaskManagerObject(strategy) == [strategy |-> strategy]

\* a set_strategy that drops the strategy when it is given the current one
set_strategy_Toggle(self, strategy) ==
    [self EXCEPT !.strategy = IF self.strategy = strategy THEN None ELSE strategy]

\* a set_strategy that keeps a strategy that is already set
set_strategy_KeepFirst(self, strategy) ==
    IF self.strategy = None THEN [self EXCEPT !.strategy = strategy] ELSE self

set_strategy(self, strategy) == [self EXCEPT !.strategy = strategy]

\* an execute_task that only tests whether a strategy is set
execute_task_raises_NoneOnly(self, procs) == ~Truthy(self.strategy)

\* execute_task: the condition of the raise statement
execute_task_raises(self, procs) ==
    \/ ~Truthy(self.strategy)
    \/ ProcessorStr(procs[self.strategy.id]) \notin get_values

\* an execute_task that drops a strategy it cannot use before it raises
execute_task_self_Drop(self, procs) ==
    IF execute_task_raises(self, procs) THEN [self EXCEPT !.strategy = None]
    ELSE self

\* the manager object after execute_task: the method assigns no attribute
execute_task_self(self, procs) == self

\* ------------------------------------------------------------- state
VARIABLES
    clock,       \* time.time() / datetime.now(), in tenths of a second
    task,        \* the WorkflowTask object
    processors,  \* the processor objects, one of each class
    manager,     \* the TaskManager object
    last_set,    \* history: the strategy last passed to TaskManager(..) or set_strategy
    calls        \* history: the process_task / execute_task calls and what they returned

strategyVars == <<clock, task, processors, manager, last_set, calls>>

\* The other exercises of the repository are modules of their own; they
\* share no state with the strategy exercise or with each other.
VARIABLES
    cm_instance,  \* singleton: ConfigManager._instance
    cm_heap,      \* singleton: the ConfigManager objects allocated so far
    cm_refs,      \* singleton: the references the client got from ConfigManager()
    cm_copy,      \* singleton: the dict the last get_all_configs() returned
    cm_expected,  \* singleton, history: what was set since the last reset_configs
                  \* or ConfigManager() call, whichever came last
    payment,      \* adapter: the last process_payment call and its result
    equipment,    \* abstract factory: the last get_equipment_factory call, its
                  \* outcome and the products made by the factory
    characters,   \* factory method: the Character objects created so far
    attacks       \* factory method, history: the attack() calls and their results

singletonVars == <<cm_instance, cm_heap, cm_refs, cm_copy, cm_expected>>
adapterVars == <<payment>>
equipmentVars == <<equipment>>
characterVars == <<characters, attacks>>

vars == <<strategyVars, singletonVars, adapterVars, equipmentVars, characterVars>>

\* The state of each module before the client uses it.
StrategyIdle ==
    /\ clock = 0
    /\ task = None
    /\ processors = <<>>
    /\ manager = None
    /\ last_set = None
    /\ calls = <<>>

SingletonInit ==
    /\ cm_instance = None
    /\ cm_heap = <<>>
    /\ cm_refs = <<>>
    /\ cm_copy = None
    /\ cm_expected = <<>>

AdapterInit == payment = None

EquipmentInit == equipment = None

CharacterInit ==
    /\ characters = <<>>
    /\ attacks = <<>>

\* The client has constructed the task, the processors (one of each class
\* and one of a class of its own) and the manager (with or without a
\* strategy).
Init ==
    /\ clock = 0
    /\ \E title \in Titles, priority \in TaskPriority, description \in Descriptions :
          task = WorkflowTask(title, priority, description, 0)
    /\ processors = [kind \in AllKinds |->
                        IF kind \in Kinds THEN NewProcessorObject(kind)
                        ELSE ForeignProcessorObject]
    /\ \E strategy \in {None} \cup {Ref(p) : p \in AllKinds} :
          /\ manager = TaskManagerObject(strategy)
          /\ last_set = strategy
    /\ calls = <<>>
    /\ SingletonInit
    /\ AdapterInit
    /\ EquipmentInit
    /\ CharacterInit

\* time passes between two calls of the client
Tick ==
    /\ clock < MaxClock
    /\ clock' = clock + 1
    /\ UNCHANGED <<task, processors, manager, last_set, calls>>
    /\ UNCHANGED <<singletonVars, adapterVars, equipmentVars, characterVars>>

\* manager.set_strategy(processors[p])
SetStrategy(p) ==
    /\ manager' = set_strategy(manager, Ref(p))
    /\ last_set' = Ref(p)
    /\ UNCHANGED <<clock, task, processors, calls>>
    /\ UNCHANGED <<singletonVars, adapterVars, equipmentVars, characterVars>>

\* task.mark_completed() called by the client
MarkCompleted ==
    /\ task' = mark_completed(task, clock)
    /\ UNCHANGED <<clock, processors, manager, last_set, calls>>
    /\ UNCHANGED <<singletonVars, adapterVars, equipmentVars, characterVars>>

\* the effect of processors[p].process_task(task), logged as a call of op
DoProcessTask(op, p) ==
    LET f == process_task(processors[p], task, clock)
    IN  /\ clock' = f.now
        /\ task' = f.task
        /\ processors' = [processors EXCEPT ![p] = f.self]
        /\ calls' = Append(calls, [op |-> op, proc |-> p, raised |-> None,
                                   result |-> f.ret, trace |-> f.trace])

\* processors[p].process_task(task) called by the client
ProcessTask(p) ==
    /\ Len(calls) < MaxCalls
    /\ DoProcessTask("process_task", p)
    /\ UNCHANGED <<manager, last_set>>
    /\ UNCHANGED <<singletonVars, adapterVars, equipmentVars, characterVars>>

\* manager.execute_task(task)
ExecuteTask ==
    /\ Len(calls) < MaxCalls
    /\ IF execute_task_raises(manager, processors)
       THEN /\ calls' = Append(calls, [op |-> "execute_task", proc |-> "",
                                       raised |-> StrLit("ValueError"),
                                       result |-> None, trace |-> <<>>])
            /\ UNCHANGED <<clock, task, processors>>
       ELSE DoProcessTask("execute_task", manager.strategy.id)
    /\ manager' = execute_task_self(manager, processors)
    /\ UNCHANGED last_set
    /\ UNCHANGED <<singletonVars, adapterVars, equipmentVars, characterVars>>

Next ==
    \/ Tick
    \/ \E p \in AllKinds : SetStrategy(p)
    \/ MarkCompleted
    \/ \E p \in Kinds : ProcessTask(p)
    \/ ExecuteTask

Spec == Init /\ [][Next]_vars


\* ------------------------------------------------------------ claims
Last(s) == s[Len(s)]

\* the calls in which a process_task ran and returned
Processed == {i \in DOMAIN calls : calls[i].proc \in Kinds}
ProcessedBy(kind) == {i \in DOMAIN calls : calls[i].proc = kind}

\* this step is a call that is logged
CallStep == Len(calls') = Len(calls) + 1

\* C1: every process_task, of every variant, returns without raising; its
\* result's status is "completed" and the task's get_status() is
\* "completed" afterwards, whether validation passed or not.
C1_ProcessAlwaysCompletes ==
    \A i \in Processed :
        /\ calls[i].raised = None
        /\ calls[i].result.status = StrLit("completed")
        /\ get_status(task) = StrLit("completed")

C1_Witness ==
    \E i \in Processed, j \in Processed :
        /\ calls[i].result.validation_passed = Bool(FALSE)
        /\ calls[i].result.status = StrLit("completed")
        /\ calls[j].result.validation_passed = Bool(TRUE)
        /\ calls[j].result.status = StrLit("completed")

\* C2: execute_task on a manager that never got a strategy (constructed
\* without one, set_strategy never called) raises ValueError and returns no
\* result.
C2_NoStrategyRaises ==
    [][(last_set = None /\ CallStep /\ Last(calls').op = "execute_task")
        => (/\ Last(calls').raised = StrLit("ValueError")
            /\ Last(calls').result = None)]_vars

C2_Witness ==
    /\ last_set = None
    /\ calls # <<>>
    /\ Last(calls).op = "execute_task"
    /\ Last(calls).raised = StrLit("ValueError")

\* C3: an execute_task that returns gives exactly the result of process_task
\* of the processor most recently set (by the constructor or the last
\* set_strategy), so strategy_used is that processor's name; the results of
\* earlier calls stay as they were.
C3_ExecuteUsesLastSet ==
    [][(CallStep /\ Last(calls').op = "execute_task" /\ Last(calls').raised = None)
        => (/\ last_set # None
            /\ Last(calls').result =
                  process_task(processors[last_set.id], task, clock).ret
            /\ Last(calls').result.strategy_used =
                  StrLit(ProcessorStr(processors[last_set.id]))
            /\ SubSeq(calls', 1, Len(calls)) = calls)]_vars

C3_Witness ==
    \E i \in DOMAIN calls, j \in DOMAIN calls :
        /\ i < j
        /\ calls[i].op = "execute_task" /\ calls[i].raised = None
        /\ calls[j].op = "execute_task" /\ calls[j].raised = None
        /\ calls[i].result.strategy_used # calls[j].result.strategy_used
        /\ calls[j].result.strategy_used = StrLit(ProcessorStr(processors[last_set.id]))

\* C4: UrgentTaskProcessor reports validation_passed as the boolean True
\* exactly when the priority is URGENT and the description is non-empty,
\* and as the boolean False otherwise.
C4_UrgentValidation ==
    \A i \in ProcessedBy("urgent") :
        calls[i].result.validation_passed =
            Bool(task.priority = URGENT /\ Len(task.description.s) > 0)

C4_Witness ==
    /\ task.priority = URGENT
    /\ Len(task.description.s) = 0
    /\ \E i \in ProcessedBy("urgent") :
          calls[i].result.validation_passed = Bool(FALSE)

\* C5: StandardTaskProcessor reports validation_passed as the boolean False
\* for a title of fewer than 3 characters (the empty title included) and as
\* the boolean True for a title of 3 or more characters.
C5_StandardValidation ==
    \A i \in ProcessedBy("standard") :
        calls[i].result.validation_passed = Bool(Len(task.title.s) >= 3)

\* C6: BackgroundTaskProcessor reports validation_passed False for priority
\* URGENT and True for LOW, MEDIUM and HIGH, whatever the title and the
\* description.
C6_BackgroundValidation ==
    \A i \in ProcessedBy("background") :
        calls[i].result.validation_passed = Bool(task.priority \in {LOW, MEDIUM, HIGH})

C6_Witness ==
    /\ task.priority = MEDIUM
    /\ Len(task.title.s) = 0
    /\ \E i \in ProcessedBy("background") :
          calls[i].result.validation_passed = Bool(TRUE)

\* C7: the processing_time of every result is non-negative, for every
\* variant and every call, second and later calls on one processor included.
C7_ProcessingTimeNonNegative ==
    \A i \in Processed : calls[i].result.processing_time.n >= 0

\* C8: once completed_at is set, no later operation clears it or changes
\* its value.
C8_CompletedAtNeverChanges ==
    [][task.completed_at # None => task'.completed_at = task.completed_at]_vars

\* C8 as amended: once completed_at is set, no later operation clears it; a
\* later mark_completed (direct or inside process_task) overwrites it with
\* the time of that call.
C8_CompletedAtNeverCleared ==
    [][task.completed_at # None =>
          /\ task'.completed_at # None
          /\ task'.completed_at \in {task.completed_at, Datetime(clock')}]_vars

C8_Witness ==
    /\ Cardinality(Processed) >= 2
    /\ task.completed_at # None
    /\ task.completed_at.at > 0

\* C9: a new task has completed_at absent and get_status() None; both stay
\* so until the first mark_completed (direct or inside process_task); from
\* then on get_status() is "completed" in every later state.
C9_StatusLifecycle ==
    /\ task.completed_at = None
    /\ get_status(task) = None
    /\ [][/\ (task.completed_at = None /\ ~MarkCompleted
                  /\ ~(CallStep /\ Last(calls').raised = None))
              => (task'.completed_at = None /\ get_status(task') = None)
          /\ get_status(task) = StrLit("completed")
              => get_status(task') = StrLit("completed")]_vars

C9_Witness ==
    /\ calls = <<>>
    /\ clock > 0
    /\ task.completed_at # None
    /\ get_status(task) = StrLit("completed")

\* C10: for a fixed task, the processing_time reported by the urgent
\* processor is strictly less than the one reported by the standard
\* processor and than the one reported by the background processor.
C10_UrgentIsFastest ==
    \A i \in ProcessedBy("urgent"), j \in ProcessedBy("standard") \cup ProcessedBy("background") :
        calls[i].result.processing_time.n < calls[j].result.processing_time.n

\* C11: execute_task raises ValueError when the name (str) of the processor
\* that was set is none of "urgent", "standard", "background", and then
\* process_task is not invoked; with a recognized name it delegates to the
\* processor and returns its result.
C11_UnrecognizedNameRaises ==
    [][(CallStep /\ Last(calls').op = "execute_task" /\ last_set # None)
        => IF ProcessorStr(processors[last_set.id]) \notin {"urgent", "standard", "background"}
           THEN /\ Last(calls').raised = StrLit("ValueError")
                /\ Last(calls').result = None
                /\ Last(calls').proc \notin AllKinds
                /\ UNCHANGED <<clock, task, processors>>
           ELSE /\ Last(calls').raised = None
                /\ Last(calls').proc = last_set.id
                /\ Last(calls').result =
                      process_task(processors[last_set.id], task, clock).ret]_vars

C11_Witness ==
    /\ last_set = Ref("foreign")
    /\ calls # <<>>
    /\ Last(calls).op = "execute_task"
    /\ Last(calls).raised = StrLit("ValueError")
    /\ task.completed_at = None

\* C12: the manager never goes back to NoStrategy: it starts without a
\* strategy only when constructed without one, and once it holds a
\* processor it holds one after every later set_strategy and execute_task.
C12_NoWayBackToNoStrategy ==
    /\ (manager.strategy = None <=> last_set = None)
    /\ [][manager.strategy # None => manager'.strategy # None]_vars

C12_Witness ==
    /\ manager.strategy # None
    /\ \E i \in DOMAIN calls, j \in DOMAIN calls :
          /\ i < j
          /\ calls[i].op = "execute_task" /\ calls[i].raised # None
          /\ calls[j].op = "execute_task" /\ calls[j].raised = None
          /\ calls[j].proc = manager.strategy.id

\* C13: strategy_used is "urgent" for UrgentTaskProcessor, "standard" for
\* StandardTaskProcessor and "background" for BackgroundTaskProcessor, for
\* every task; the three names differ and execute_task accepts each.
C13_StrategyNames ==
    /\ \A i \in ProcessedBy("urgent") :
          calls[i].result.strategy_used = StrLit("urgent")
    /\ \A i \in ProcessedBy("standard") :
          calls[i].result.strategy_used = StrLit("standard")
    /\ \A i \in ProcessedBy("background") :
          calls[i].result.strategy_used = StrLit("background")
    /\ Cardinality({ProcessorStr(processors[k]) : k \in Kinds}) = 3
    /\ \A k \in Kinds :
          ~execute_task_raises(TaskManagerObject(Ref(k)), processors)

C13_Witness ==
    /\ \A k \in Kinds : \E i \in ProcessedBy(k) : calls[i].op = "execute_task"
    /\ Cardinality({calls[i].result.strategy_used : i \in Processed}) = 3

\* the statements the claim C21 lists for a variant, in its order
ClaimedSteps(kind) ==
    IF SleepOf(kind) > 0
    THEN <<"start_timer", "validate_task", "sleep", "mark_completed", "return">>
    ELSE <<"start_timer", "validate_task", "mark_completed", "return">>

\* C21: in every processor variant, process_task performs its steps in the
\* order: start the timer, evaluate the validation predicate, block for the
\* variant's simulated latency, mark the task completed, stop the timer; the
\* validation predicate is evaluated before the latency elapses and the
\* task is not marked completed before the latency has elapsed.
C21_StepOrder ==
    \A i \in Processed : calls[i].trace = ClaimedSteps(calls[i].proc)

\* C22: when execute_task raises the invalid-state error, nothing changes:
\* the task keeps its completed_at (a never-processed task stays not
\* completed) and the manager's strategy reference is the same as before
\* the call; a successful execute_task likewise leaves the manager's
\* strategy reference unchanged.
C22_ExecuteTaskFrame ==
    [][(CallStep /\ Last(calls').op = "execute_task")
        => (/\ manager'.strategy = manager.strategy
            /\ Last(calls').raised # None =>
                  /\ task' = task
                  /\ get_status(task') = get_status(task)
                  /\ manager' = manager
                  /\ processors' = processors
                  /\ clock' = clock)]_vars

C22_Witness ==
    /\ task.completed_at = None
    /\ manager.strategy = Ref(ForeignProcessorObject.kind)
    /\ Len(calls) = 2
    /\ calls[1].op = "execute_task" /\ calls[1].raised = StrLit("ValueError")
    /\ calls[2].op = "execute_task" /\ calls[2].raised = StrLit("ValueError")

\* the three fields of the result of a first call of process_task on a new
\* processor of the class and a new task with the given attributes
FreshResult(kind, title, priority, description) ==
    LET r == process_task(NewProcessorObject(kind),
                          WorkflowTask(title, priority, description, 0), 0).ret
    IN  <<r.status, r.strategy_used, r.validation_passed>>

\* C23: the status, strategy_used and validation_passed fields of a
\* process_task result are determined only by the processor variant and the
\* task's title, priority and description: runs that differ in call history
\* (the processor was used before, the task was already completed, the
\* manager was swapped earlier) give the same three fields.
C23_ResultDeterminedByInputs ==
    \A i \in Processed :
        <<calls[i].result.status, calls[i].result.strategy_used,
          calls[i].result.validation_passed>>
            = FreshResult(calls[i].proc, task.title.s, task.priority,
                          task.description.s)

C23_Witness ==
    /\ Len(calls) = 3
    /\ calls[1].op = "execute_task" /\ calls[1].proc = "urgent"
    /\ calls[2].op = "process_task" /\ calls[2].proc = "standard"
    /\ calls[3].op = "execute_task" /\ calls[3].proc = "standard"
    /\ Len(task.title.s) >= 3
    /\ calls[3].result.validation_passed = Bool(TRUE)

(***************************************************************************)
(* Singleton exercise: ConfigManager (2_creational/05_singleton/starter.py)*)
(***************************************************************************)
MaxRefs == 3

\* keys and values the client stores, and the defaults it passes to get_config
ConfigKeys == {"theme", "difficulty"}
ConfigValues == {StrLit("dark"), StrLit("medium")}
ConfigDefaults == {None, StrLit("default_value")}

\* A dict is a function from the keys it holds.
EmptyDict == <<>>
DictPut(dict, key, value) ==
    [k \in DOMAIN dict \cup {key} |-> IF k = key THEN value ELSE dict[k]]

\* a ConfigManager object as object.__new__ leaves it: no _config attribute yet
Unset == [t |-> "unset"]
NewConfigManagerObject == [config |-> Unset]

\* a __new__ that allocates on every call
ConfigManager_new_Always(instance, heap) ==
    [instance |-> Ref(Len(heap) + 1), heap |-> Append(heap, NewConfigManagerObject)]

\* __new__(cls): cls._instance and the heap after the call; the call returns
\* cls._instance
ConfigManager_new(instance, heap) ==
    IF instance = None
    THEN [instance |-> Ref(Len(heap) + 1), heap |-> Append(heap, NewConfigManagerObject)]
    ELSE [instance |-> instance, heap |-> heap]

\* __init__(self)
ConfigManager_init(self) == [self EXCEPT !.config = EmptyDict]

set_config(self, key, value) ==
    [self EXCEPT !.config = DictPut(self.config, key, value)]

get_config(self, key, default) ==
    IF key \in DOMAIN self.config THEN self.config[key] ELSE default

has_config(self, key) == Bool(key \in DOMAIN self.config)

\* a get_all_configs that hands out the stored dict itself
get_all_configs_NoCopy(self) == [items |-> self.config, is_stored |-> TRUE]

\* get_all_configs(self): dict.copy() makes a new dict with the same items,
\* which is not the dict the object stores
get_all_configs(self) == [items |-> self.config, is_stored |-> FALSE]

reset_configs(self) == [self EXCEPT !.config = EmptyDict]

\* ConfigManager(): type.__call__ runs __new__ and then __init__ on the
\* object __new__ returned
NewConfigManager ==
    /\ Len(cm_refs) < MaxRefs
    /\ LET n == ConfigManager_new(cm_instance, cm_heap)
           self == n.instance.id
       IN  /\ cm_instance' = n.instance
           /\ cm_heap' = [n.heap EXCEPT ![self] = ConfigManager_init(@)]
           /\ cm_refs' = Append(cm_refs, n.instance)
    /\ cm_expected' = EmptyDict
    /\ UNCHANGED cm_copy
    /\ UNCHANGED <<strategyVars, adapterVars, equipmentVars, characterVars>>

\* cm_refs[r].set_config(key, value)
SetConfig(r, key, value) ==
    /\ r \in DOMAIN cm_refs
    /\ cm_heap' = [cm_heap EXCEPT ![cm_refs[r].id] = set_config(@, key, value)]
    /\ cm_expected' = DictPut(cm_expected, key, value)
    /\ UNCHANGED <<cm_instance, cm_refs, cm_copy>>
    /\ UNCHANGED <<strategyVars, adapterVars, equipmentVars, characterVars>>

\* cm_refs[r].reset_configs()
ResetConfigs(r) ==
    /\ r \in DOMAIN cm_refs
    /\ cm_heap' = [cm_heap EXCEPT ![cm_refs[r].id] = reset_configs(@)]
    /\ cm_expected' = EmptyDict
    /\ UNCHANGED <<cm_instance, cm_refs, cm_copy>>
    /\ UNCHANGED <<strategyVars, adapterVars, equipmentVars, characterVars>>

\* d = cm_refs[r].get_all_configs()
GetAllConfigs(r) ==
    /\ r \in DOMAIN cm_refs
    /\ LET d == get_all_configs(cm_heap[cm_refs[r].id])
       IN  cm_copy' = [items |-> d.items, is_stored |-> d.is_stored,
                       of |-> cm_refs[r].id]
    /\ UNCHANGED <<cm_instance, cm_heap, cm_refs, cm_expected>>
    /\ UNCHANGED <<strategyVars, adapterVars, equipmentVars, characterVars>>

\* d[key] = value, on the dict get_all_configs() returned
MutateCopy(key, value) ==
    /\ cm_copy # None
    /\ cm_copy' = [cm_copy EXCEPT !.items = DictPut(@, key, value)]
    /\ cm_heap' = IF cm_copy.is_stored
                  THEN [cm_heap EXCEPT ![cm_copy.of].config = DictPut(@, key, value)]
                  ELSE cm_heap
    /\ UNCHANGED <<cm_instance, cm_refs, cm_expected>>
    /\ UNCHANGED <<strategyVars, adapterVars, equipmentVars, characterVars>>

InitSingleton ==
    /\ StrategyIdle
    /\ SingletonInit
    /\ AdapterInit
    /\ EquipmentInit
    /\ CharacterInit

NextSingleton ==
    \/ NewConfigManager
    \/ \E r \in 1..MaxRefs, key \in ConfigKeys, value \in ConfigValues :
          SetConfig(r, key, value)
    \/ \E r \in 1..MaxRefs : ResetConfigs(r)
    \/ \E r \in 1..MaxRefs : GetAllConfigs(r)
    \/ \E key \in ConfigKeys, value \in ConfigValues : MutateCopy(key, value)

SpecSingleton == InitSingleton /\ [][NextSingleton]_vars

\* the configuration stored in the singleton ({} while there is none)
Stored == IF cm_instance = None THEN EmptyDict ELSE cm_heap[cm_instance.id].config

\* C14: every ConfigManager() call, however many are made and wherever they
\* fall among the other operations, returns the same single instance.
C14_OneInstance ==
    /\ Len(cm_heap) <= 1
    /\ \A i \in DOMAIN cm_refs, j \in DOMAIN cm_refs : cm_refs[i] = cm_refs[j]
    /\ \A i \in DOMAIN cm_refs : cm_refs[i] = cm_instance

C14_Witness ==
    /\ Len(cm_refs) = MaxRefs
    /\ cm_refs[1] = cm_refs[MaxRefs]
    /\ DOMAIN cm_expected = ConfigKeys
    /\ cm_copy # None

\* C19: after any sequence of set_config and reset_configs calls on a
\* reference, with no ConfigManager() call in between, get_all_configs holds
\* exactly the keys set since the last reset with their latest values,
\* has_config is true for exactly those keys, get_config gives the stored
\* value for them and the default otherwise; changing the dict that
\* get_all_configs returned does not change the stored configuration.
C19_ConfigIsWhatWasSet ==
    \A r \in DOMAIN cm_refs :
        LET self == cm_heap[cm_refs[r].id]
        IN  /\ get_all_configs(self).items = cm_expected
            /\ \A key \in ConfigKeys :
                  /\ has_config(self, key) = Bool(key \in DOMAIN cm_expected)
                  /\ \A default \in ConfigDefaults :
                        get_config(self, key, default) =
                            IF key \in DOMAIN cm_expected
                            THEN cm_expected[key] ELSE default

C19_Witness ==
    /\ cm_copy # None
    /\ DOMAIN cm_copy.items = ConfigKeys
    /\ DOMAIN cm_expected = {"theme"}
    /\ cm_copy.items["theme"] # cm_expected["theme"]
    /\ Stored = cm_expected

\* C20: configuration is shared by all references: what was stored through
\* one reference is returned through every reference, also one obtained by
\* a later ConfigManager() call; obtaining a reference never removes or
\* changes stored configuration.
C20_NewReferenceKeepsConfig ==
    [][Len(cm_refs') = Len(cm_refs) + 1
        => /\ Stored' = Stored
           /\ \A key \in DOMAIN Stored :
                 get_config(cm_heap'[Last(cm_refs').id], key, None) = Stored[key]]_vars

(***************************************************************************)
(* Adapter exercise: payment services and their adapters                   *)
(* (3_structural/01_adapter/starter.py).                                   *)
(*                                                                         *)
(* An amount is counted in thousandths of the currency unit, so that       *)
(* amounts below one cent exist.                                           *)
(***************************************************************************)
MaxAmount == 12

Amounts == (-MaxAmount)..MaxAmount
Currencies == {"USD", "EUR", "PLN"}

\* random.randint(1000, 9999), random.randint(100000, 999999) and
\* uuid.uuid4().hex[:8]: any value of the range may come out
PayPalIds == {1000, 9999}
Przelewy24Ids == {100000, 999999}
StripeIds == {"00000000", "9f86d081"}

\* int(amount * 100): the cents of an amount, truncated towards zero
ToCents(amount) ==
    IF amount >= 0 THEN amount \div 10 ELSE -((-amount) \div 10)

\* PayPalService.make_payment
make_payment(amount_cents, currency, rnd) ==
    [payment_id |-> "PAYPAL_" \o ToString(rnd),
     status_code |-> IF amount_cents > 0 THEN 200 ELSE 400]

\* StripeService.charge
charge(amount, currency, hex) ==
    [id |-> "ch_" \o hex, paid |-> Bool(amount > 0), amount |-> amount]

\* Przelewy24Service.create_transaction
create_transaction(amount, currency, rnd) ==
    [transactionId |-> rnd,
     success |-> PyAnd(Bool(amount > 0), Bool(currency = "PLN"))]

\* PayPalAdapter.process_payment
PayPalProcessPayment(amount, currency, rnd) ==
    LET response == make_payment(ToCents(amount), currency, rnd)
    IN  IF response.status_code = 200
        THEN [status |-> StrLit("success"),
              transaction_id |-> StrLit(response.payment_id)]
        ELSE [status |-> StrLit("failed"), transaction_id |-> None]

\* StripeAdapter.process_payment
StripeProcessPayment(amount, currency, hex) ==
    LET response == charge(amount, currency, hex)
    IN  IF response.paid = Bool(TRUE)
        THEN [status |-> StrLit("success"), transaction_id |-> StrLit(response.id)]
        ELSE [status |-> Bool(FALSE), transaction_id |-> None]

\* Przelewy24Adapter.process_payment
Przelewy24ProcessPayment(amount, currency, rnd) ==
    LET response == create_transaction(amount, currency, rnd)
    IN  IF response.success = Bool(TRUE)
        THEN [status |-> StrLit("success"),
              transaction_id |-> StrLit(ToString(response.transactionId))]
        ELSE [status |-> StrLit("failed"), transaction_id |-> None]

\* PayPalAdapter(PayPalService()).process_payment(amount, currency)
PayPalPayment(amount, currency, rnd) ==
    /\ payment' = [adapter |-> "PayPalAdapter", amount |-> amount, currency |-> currency,
                   result |-> PayPalProcessPayment(amount, currency, rnd)]
    /\ UNCHANGED <<strategyVars, singletonVars, equipmentVars, characterVars>>

\* StripeAdapter(StripeService()).process_payment(amount, currency)
StripePayment(amount, currency, hex) ==
    /\ payment' = [adapter |-> "StripeAdapter", amount |-> amount, currency |-> currency,
                   result |-> StripeProcessPayment(amount, currency, hex)]
    /\ UNCHANGED <<strategyVars, singletonVars, equipmentVars, characterVars>>

\* Przelewy24Adapter(Przelewy24Service()).process_payment(amount, currency)
Przelewy24Payment(amount, currency, rnd) ==
    /\ payment' = [adapter |-> "Przelewy24Adapter", amount |-> amount,
                   currency |-> currency,
                   result |-> Przelewy24ProcessPayment(amount, currency, rnd)]
    /\ UNCHANGED <<strategyVars, singletonVars, equipmentVars, characterVars>>

InitAdapter ==
    /\ StrategyIdle
    /\ SingletonInit
    /\ AdapterInit
    /\ EquipmentInit
    /\ CharacterInit

NextAdapter ==
    \/ \E amount \in Amounts, currency \in Currencies, rnd \in PayPalIds :
          PayPalPayment(amount, currency, rnd)
    \/ \E amount \in Amounts, currency \in Currencies, hex \in StripeIds :
          StripePayment(amount, currency, hex)
    \/ \E amount \in Amounts, currency \in Currencies, rnd \in Przelewy24Ids :
          Przelewy24Payment(amount, currency, rnd)

SpecAdapter == InitAdapter /\ [][NextAdapter]_vars

\* C15: every adapter returns, for every amount and currency, a mapping
\* whose status is the string "success" or the string "failed";
\* transaction_id is a non-empty string when the status is "success" and
\* None when the payment failed.
C15_PaymentResultShape ==
    payment # None =>
        /\ payment.result.status \in {StrLit("success"), StrLit("failed")}
        /\ IF payment.result.status = StrLit("success")
           THEN /\ payment.result.transaction_id.t = "str"
                /\ Len(payment.result.transaction_id.lit) > 0
           ELSE payment.result.transaction_id = None

(***************************************************************************)
(* Abstract factory exercise: equipment factories                          *)
(* (2_creational/02_abstract_factory/starter.py).                          *)
(*                                                                         *)
(* A class name given by the client is a sequence of characters; lower()   *)
(* is computed character by character.                                     *)
(***************************************************************************)
\* the letters that occur in the names below, lower case and upper case
LetterPairs ==
    {<<"a", "A">>, <<"c", "C">>, <<"d", "D">>, <<"e", "E">>, <<"g", "G">>,
     <<"h", "H">>, <<"i", "I">>, <<"l", "L">>, <<"m", "M">>, <<"n", "N">>,
     <<"o", "O">>, <<"r", "R">>, <<"s", "S">>, <<"v", "V">>, <<"w", "W">>}

LowerChar(c) ==
    IF \E p \in LetterPairs : p[2] = c
    THEN (CHOOSE p \in LetterPairs : p[2] = c)[1] ELSE c

UpperChar(c) ==
    IF \E p \in LetterPairs : p[1] = c
    THEN (CHOOSE p \in LetterPairs : p[1] = c)[2] ELSE c

\* str.lower()
lower(text) == [i \in DOMAIN text |-> LowerChar(text[i])]

\* the characters of a str, as one string (for messages)
RECURSIVE Join(_)
Join(text) == IF text = <<>> THEN "" ELSE Head(text) \o Join(Tail(text))

\* CharacterClassEnum
WARRIOR == <<"w", "a", "r", "r", "i", "o", "r">>
MAGE == <<"m", "a", "g", "e">>
ARCHER == <<"a", "r", "c", "h", "e", "r">>
CharacterClassEnum == <<WARRIOR, MAGE, ARCHER>>
CharacterClassValues == {CharacterClassEnum[i] : i \in DOMAIN CharacterClassEnum}

\* every spelling of a word in upper and lower case letters
RECURSIVE CaseVariants(_)
CaseVariants(word) ==
    IF word = <<>> THEN {<<>>}
    ELSE {<<c>> \o rest : c \in {Head(word), UpperChar(Head(word))},
                          rest \in CaseVariants(Tail(word))}

\* names that are no character class
UnknownNames ==
    {<<>>, <<"i", "n", "v", "a", "l", "i", "d">>, <<"I", "n", "v", "a", "l", "i", "d">>,
     <<"m", "a", "g">>, <<"M", "A", "G", "E", "S">>, <<"w", "a", "r", "r", "i", "o", "r", "s">>}

ClassNames ==
    CaseVariants(WARRIOR) \cup CaseVariants(MAGE) \cup CaseVariants(ARCHER)
        \cup UnknownNames

\* objects of the product and factory classes have no attributes
Object(class) == [class |-> class]

\* Weapon.damage / Weapon.get_name of Sword, Staff, Bow
damage(weapon) ==
    CASE weapon.class = "Sword" -> 80
      [] weapon.class = "Staff" -> 40
      [] weapon.class = "Bow" -> 60

WeaponGetName(weapon) ==
    CASE weapon.class = "Sword" -> "Sword"
      [] weapon.class = "Staff" -> "Staff"
      [] weapon.class = "Bow" -> "Bow"

\* Armor.defense / Armor.get_name of HeavyArmor, LightRobe, LeatherArmor
defense(armor) ==
    CASE armor.class = "HeavyArmor" -> 50
      [] armor.class = "LightRobe" -> 15
      [] armor.class = "LeatherArmor" -> 25

ArmorGetName(armor) ==
    CASE armor.class = "HeavyArmor" -> "HeavyArmor"
      [] armor.class = "LightRobe" -> "LightRobe"
      [] armor.class = "LeatherArmor" -> "LeatherArmor"

\* create_armor with the mage given the warrior's armor
create_armor_Mixed(factory) ==
    CASE factory.class = "WarriorEquipmentFactory" -> Object("HeavyArmor")
      [] factory.class = "MageEquipmentFactory" -> Object("HeavyArmor")
      [] factory.class = "ArcherEquipmentFactory" -> Object("LeatherArmor")

\* create_armor / create_weapon of the three concrete factories
create_armor(factory) ==
    CASE factory.class = "WarriorEquipmentFactory" -> Object("HeavyArmor")
      [] factory.class = "MageEquipmentFactory" -> Object("LightRobe")
      [] factory.class = "ArcherEquipmentFactory" -> Object("LeatherArmor")

create_weapon(factory) ==
    CASE factory.class = "WarriorEquipmentFactory" -> Object("Sword")
      [] factory.class = "MageEquipmentFactory" -> Object("Staff")
      [] factory.class = "ArcherEquipmentFactory" -> Object("Bow")

\* validate_character_class: what it raises (None when it returns True)
validate_character_class(character_class) ==
    IF \/ ~Truthy(Str(character_class))
       \/ lower(character_class) \notin CharacterClassValues
    THEN [raised |-> StrLit("ValueError"),
          message |-> StrLit("character class \"" \o Join(character_class)
                                \o "\" not implemented")]
    ELSE [raised |-> None, message |-> None]

\* get_equipment_factory: the exception it raises or the factory it returns
get_equipment_factory(character_class) ==
    LET v == validate_character_class(character_class)
    IN  IF v.raised # None
        THEN [raised |-> v.raised, message |-> v.message, factory |-> None]
        ELSE CASE lower(character_class) = WARRIOR ->
                    [raised |-> None, message |-> None,
                     factory |-> Object("WarriorEquipmentFactory")]
               [] lower(character_class) = MAGE ->
                    [raised |-> None, message |-> None,
                     factory |-> Object("MageEquipmentFactory")]
               [] lower(character_class) = ARCHER ->
                    [raised |-> None, message |-> None,
                     factory |-> Object("ArcherEquipmentFactory")]
               [] OTHER ->
                    [raised |-> StrLit("NotImplementedError"),
                     message |-> StrLit("to sie nigdy nie zadzieje"),
                     factory |-> None]

\* factory = get_equipment_factory(character_class)
GetEquipmentFactory(character_class) ==
    /\ LET g == get_equipment_factory(character_class)
       IN  equipment' = [character_class |-> character_class, raised |-> g.raised,
                         message |-> g.message, factory |-> g.factory,
                         weapon |-> None, armor |-> None]
    /\ UNCHANGED <<strategyVars, singletonVars, adapterVars, characterVars>>

\* weapon = factory.create_weapon()
CreateWeapon ==
    /\ equipment # None
    /\ equipment.factory # None
    /\ equipment' = [equipment EXCEPT !.weapon = create_weapon(equipment.factory)]
    /\ UNCHANGED <<strategyVars, singletonVars, adapterVars, characterVars>>

\* armor = factory.create_armor()
CreateArmor ==
    /\ equipment # None
    /\ equipment.factory # None
    /\ equipment' = [equipment EXCEPT !.armor = create_armor(equipment.factory)]
    /\ UNCHANGED <<strategyVars, singletonVars, adapterVars, characterVars>>

InitEquipment ==
    /\ StrategyIdle
    /\ SingletonInit
    /\ AdapterInit
    /\ EquipmentInit
    /\ CharacterInit

NextEquipment ==
    \/ \E character_class \in ClassNames : GetEquipmentFactory(character_class)
    \/ CreateWeapon
    \/ CreateArmor

SpecEquipment == InitEquipment /\ [][NextEquipment]_vars

\* the three product families of the claim: name, factory, weapon with its
\* least damage, armor with its least defense
Families ==
    {[name |-> WARRIOR, factory |-> "WarriorEquipmentFactory",
      weapon |-> "Sword", damage |-> 80, armor |-> "HeavyArmor", defense |-> 50],
     [name |-> MAGE, factory |-> "MageEquipmentFactory",
      weapon |-> "Staff", damage |-> 40, armor |-> "LightRobe", defense |-> 15],
     [name |-> ARCHER, factory |-> "ArcherEquipmentFactory",
      weapon |-> "Bow", damage |-> 60, armor |-> "LeatherArmor", defense |-> 25]}

KnownNames == UNION {CaseVariants(f.name) : f \in Families}

\* C16: get_equipment_factory accepts "warrior", "mage" and "archer" in any
\* letter case and returns the matching factory; its products form one
\* family (Sword >= 80 with HeavyArmor >= 50, Staff >= 40 with LightRobe
\* >= 15, Bow >= 60 with LeatherArmor >= 25), never a weapon of one class
\* with the armor of another.
C16_FactoryFamilies ==
    equipment # None =>
        /\ \A f \in Families :
              equipment.character_class \in CaseVariants(f.name) =>
                  /\ equipment.raised = None
                  /\ equipment.factory = Object(f.factory)
                  /\ equipment.weapon # None =>
                        /\ equipment.weapon = Object(f.weapon)
                        /\ WeaponGetName(equipment.weapon) = f.weapon
                        /\ damage(equipment.weapon) >= f.damage
                  /\ equipment.armor # None =>
                        /\ equipment.armor = Object(f.armor)
                        /\ ArmorGetName(equipment.armor) = f.armor
                        /\ defense(equipment.armor) >= f.defense
        /\ (equipment.weapon # None /\ equipment.armor # None) =>
              \E f \in Families :
                  /\ equipment.weapon = Object(f.weapon)
                  /\ equipment.armor = Object(f.armor)

C16_Witness ==
    /\ equipment # None
    /\ equipment.character_class = <<"M", "a", "G", "E">>
    /\ equipment.weapon = Object("Staff")
    /\ equipment.armor = Object("LightRobe")

\* C17: get_equipment_factory called with a name that is not warrior, mage
\* or archer in any case raises ValueError with the message
\* "Unknown character class: <name>" and returns no factory.
C17_UnknownClassMessage ==
    (equipment # None /\ equipment.character_class \notin KnownNames) =>
        /\ equipment.raised = StrLit("ValueError")
        /\ equipment.factory = None
        /\ equipment.message =
              StrLit("Unknown character class: " \o Join(equipment.character_class))

(***************************************************************************)
(* Factory method exercise: characters and their weapons                   *)
(* (2_creational/01_factory_method/starter.py).                            *)
(***************************************************************************)
MaxCharacters == 2
MaxAttacks == 2

CharacterClasses == {"Warrior", "Mage", "Archer"}
CharacterNames == {"Conan", "Gandalf", "Legolas", ""}

\* Weapon.get_name / Weapon.get_damage of Sword, Staff, Bow
get_name(weapon) ==
    CASE weapon.class = "Sword" -> "Sword"
      [] weapon.class = "Staff" -> "Staff"
      [] weapon.class = "Bow" -> "Bow"

get_damage(weapon) ==
    CASE weapon.class = "Sword" -> 50
      [] weapon.class = "Staff" -> 30
      [] weapon.class = "Bow" -> 40

\* Character.__init__
NewCharacterObject(class, name) == [class |-> class, name |-> name]

\* a factory method that is the same for every character
Character_create_weapon_AllSword(self) == Object("Sword")

\* create_weapon of Warrior, Mage, Archer
Character_create_weapon(self) ==
    CASE self.class = "Warrior" -> Object("Sword")
      [] self.class = "Mage" -> Object("Staff")
      [] self.class = "Archer" -> Object("Bow")

\* Character.attack
attack(self) ==
    LET weapon == Character_create_weapon(self)
    IN  StrLit(self.name \o " attacks with " \o get_name(weapon) \o " for "
                 \o ToString(get_damage(weapon)) \o " damage!")

\* character = Warrior(name) / Mage(name) / Archer(name)
NewCharacter(class, name) ==
    /\ Len(characters) < MaxCharacters
    /\ characters' = Append(characters, NewCharacterObject(class, name))
    /\ UNCHANGED attacks
    /\ UNCHANGED <<strategyVars, singletonVars, adapterVars, equipmentVars>>

\* weapon = character.create_weapon(); weapon.get_name(); weapon.get_damage()
CreateCharacterWeapon(i) ==
    /\ i \in DOMAIN characters
    /\ Len(attacks) < MaxAttacks
    /\ LET weapon == Character_create_weapon(characters[i])
       IN  attacks' = Append(attacks,
               [op |-> "create_weapon", who |-> i,
                result |-> [name |-> get_name(weapon),
                            damage |-> get_damage(weapon)]])
    /\ UNCHANGED characters
    /\ UNCHANGED <<strategyVars, singletonVars, adapterVars, equipmentVars>>

\* character.attack()
Attack(i) ==
    /\ i \in DOMAIN characters
    /\ Len(attacks) < MaxAttacks
    /\ attacks' = Append(attacks,
           [op |-> "attack", who |-> i, result |-> attack(characters[i])])
    /\ UNCHANGED characters
    /\ UNCHANGED <<strategyVars, singletonVars, adapterVars, equipmentVars>>

InitCharacter ==
    /\ StrategyIdle
    /\ SingletonInit
    /\ AdapterInit
    /\ EquipmentInit
    /\ CharacterInit

NextCharacter ==
    \/ \E class \in CharacterClasses, name \in CharacterNames :
          NewCharacter(class, name)
    \/ \E i \in 1..MaxCharacters : CreateCharacterWeapon(i)
    \/ \E i \in 1..MaxCharacters : Attack(i)

SpecCharacter == InitCharacter /\ [][NextCharacter]_vars

\* the weapon the claim gives to each class, with its damage as printed
ClaimedWeapon ==
    [Warrior |-> [name |-> "Sword", damage |-> 50, printed |-> "50"],
     Mage |-> [name |-> "Staff", damage |-> 30, printed |-> "30"],
     Archer |-> [name |-> "Bow", damage |-> 40, printed |-> "40"]]

\* C18: Character.attack returns "{name} attacks with {weapon} for {damage}
\* damage!" where the weapon is the one created by the character's own
\* factory method: Warrior always Sword with damage 50, Mage always Staff
\* with damage 30, Archer always Bow with damage 40, for every name and on
\* every call.
C18_AttackUsesOwnWeapon ==
    \A k \in DOMAIN attacks :
        LET self == characters[attacks[k].who]
            w == ClaimedWeapon[self.class]
        IN  /\ attacks[k].op = "create_weapon" =>
                  attacks[k].result = [name |-> w.name, damage |-> w.damage]
            /\ attacks[k].op = "attack" =>
                  attacks[k].result =
                      StrLit(self.name \o " attacks with " \o w.name \o " for "
                               \o w.printed \o " damage!")

C18_Witness ==
    /\ Len(attacks) = 2
    /\ attacks[1] = [op |-> "attack", who |-> 2,
                     result |-> StrLit("Gandalf attacks with Staff for 30 damage!")]
    /\ attacks[2] = attacks[1]
    /\ characters[1].class = "Warrior"

====
